---- MODULE Spec2Model ----
(***************************************************************************)
(* Dish catalogue backend (FastAPI + SQLModel): the request pipeline       *)
(* router -> DishService -> DishRepository -> persistence backend, the     *)
(* Dish / CollectionDishLink tables and the exception-to-status mapping.   *)
(*                                                                         *)
(* Optional values (Optional[T] in the Python source) are encoded as sets: *)
(* {} is None, {v} is the value v.  Names are sequences of characters.     *)
(***************************************************************************)
EXTENDS Integers, Sequences, FiniteSets, TLC

\* ------------------------------------------------------------------ bounds
NReq == 2
MaxId == 2
MaxClock == 1

MaxLimit == 2

\* ------------------------------------------------------------ input domains
Req == 1..NReq
Ids == 1..MaxId
Collections == {1, 2}
Names == {<<"a">>, <<"A">>}
Descs == {"spicy"}
None == {}
OptName == {None} \cup {{n} : n \in Names}
OptDesc == {None} \cup {{d} : d \in Descs}
FieldNames == {"name", "description"}
Searches == {None, {<<"a">>}}
Limits == 1..MaxLimit

VARIABLES
  dishes,    \* the dishes table: id -> row
  links,     \* the collection_dish table: a set of <<collection_id, dish_id>>
  seq,       \* the next value of the id sequence (postgres)
  dbType,    \* settings.db_type
  clock,     \* the current time
  sessions,  \* the requests whose persistence session is open
  req,       \* request -> where it is: "idle", "inflight" or "done"
  last,      \* the request executed last: its operation, input and response
  gone,      \* history: ids removed by a delete and not assigned again since
  created,   \* history: id -> the input that created the dish, until it is updated
  scan,      \* the client's paging through GET /
  before     \* history: the row the last PATCH found under its id, if any

vars == <<dishes, links, seq, dbType, clock, sessions, req, last, gone, created, scan,
         before>>

\* ------------------------------------------------------------------ helpers
Max(S) == CHOOSE x \in S : \A y \in S : y <= x

The(S) == CHOOSE x \in S : TRUE

Without(f, x) == [y \in DOMAIN f \ {x} |-> f[y]]

\* ------------------------------------------------------- src/core/exception
StatusOf(cls) ==
  CASE cls = "NotFoundException" -> 404
    [] cls = "AlreadyExistsException" -> 409
    [] cls = "UnauthorizedException" -> 401
    [] cls = "ForbiddenException" -> 403
    [] OTHER -> 500

Detail(text, name, id) == [text |-> text, name |-> name, id |-> id]

Exc(cls, detail) == [cls |-> cls, detail |-> detail]

NotFoundException(id) ==
  Exc("NotFoundException", Detail("Dish with id not found", None, {id}))

AlreadyExistsOnCreate(name) ==
  Exc("AlreadyExistsException", Detail("Dish with name already exists", {name}, None))

AlreadyExistsOnUpdate ==
  Exc("AlreadyExistsException", Detail("Dish with this name already exists", None, None))

\* the backend's constraint-violation signal (sqlalchemy.exc.IntegrityError)
IntegrityError(constraint) ==
  Exc("IntegrityError", Detail(constraint, None, None))

\* Failures of the framework and of the backend that are not constraint
\* violations (a lost connection, a body that fails validation, ...).
RequestValidationError(field) ==
  Exc("RequestValidationError", Detail(field, None, None))

\* exception class -> its base class (Exception is the root)
BaseOf(cls) ==
  CASE cls \in {"NotFoundException", "AlreadyExistsException",
                "UnauthorizedException", "ForbiddenException"} -> "HTTPException"
    [] OTHER -> "Exception"

\* ---------------------------------------------------------- src/dishes/model
\* variant of UniqueViolation: the name column without its unique constraint
UniqueViolation_Absent(d, id, name) ==
  FALSE

\* Dish.name: unique=True
UniqueViolation(d, id, name) ==
  \E j \in DOMAIN d : j # id /\ d[j].name = name

\* Dish.name: nullable=False
NotNullViolation(optName) ==
  optName = None

\* variant of ForeignKeyViolation: the join table without its foreign key
ForeignKeyViolation_Absent(l, id) ==
  FALSE

\* CollectionDishLink.dish_id: foreign_key="dishes.id" (no ON DELETE action)
ForeignKeyViolation(l, id) ==
  \E k \in l : k[2] = id

\* Dish: a stored row, and the entity loaded from it
Dish(id, name, description, created_at, updated_at) ==
  [id |-> id, name |-> name, description |-> description,
   created_at |-> created_at, updated_at |-> updated_at]

\* Dish.id: assigned by the backend; a sequence on postgres (consumed by
\* failed inserts too), the largest rowid plus one on sqlite.
NewId(d, s, db) ==
  IF db = "postgres" THEN s
  ELSE IF DOMAIN d = {} THEN 1 ELSE Max(DOMAIN d) + 1

\* --------------------------------------------------------- src/dishes/schema
DishCreate(name, description) ==
  [name |-> name, description |-> description]

\* fields is pydantic's model_fields_set: the fields the request body carried
DishUpdate(fields, name, description) ==
  [fields |-> fields,
   name |-> IF "name" \in fields THEN name ELSE None,
   description |-> IF "description" \in fields THEN description ELSE None]

\* variant of DishPublic: the description is not copied
DishPublic_NoDescription(dish) ==
  [id |-> dish.id, name |-> dish.name, description |-> None,
   created_at |-> dish.created_at]

DishPublic(dish) ==
  [id |-> dish.id, name |-> dish.name, description |-> dish.description,
   created_at |-> dish.created_at]

\* DishQueryParams: the query of GET /, with its defaults
DishQueryParams(search, order_by, direction, limit, offset) ==
  [search |-> search, order_by |-> order_by, direction |-> direction,
   limit |-> limit, offset |-> offset]

LimitMax == 500
LimitDefault == 10

DefaultQuery == DishQueryParams(None, "id", "asc", LimitDefault, 0)

\* the constraints DishQueryParams puts on its fields
ValidQuery(q) ==
  /\ q.order_by \in {"id", "name", "created_at"}
  /\ q.direction \in {"asc", "desc"}
  /\ q.limit >= 1 /\ q.limit <= LimitMax
  /\ q.offset >= 0

\* ----------------------------------------------------- dishes/repository
\* What a repository call leaves behind: the exception it raised (or None),
\* the value it returned (or None), and the tables after it.
Outcome(raised, ret, d, l) ==
  [raised |-> raised, ret |-> ret, dishes |-> d, links |-> l]

\* create(data) -> Dish: inserts a row; a name collision raises the
\* backend's uniqueness violation and writes nothing.
RepositoryCreate(d, l, id, now, data) ==
  IF UniqueViolation(d, id, data.name)
  THEN Outcome({IntegrityError("unique")}, None, d, l)
  ELSE LET row == Dish(id, data.name, data.description, now, now)
       IN Outcome(None, {row}, (id :> row) @@ d, l)

\* get_by_id(id) -> Dish | absent
RepositoryGetById(d, l, id) ==
  Outcome(None, IF id \in DOMAIN d THEN {d[id]} ELSE None, d, l)

\* the code point of a character, which orders names
Code(c) ==
  CASE c = "A" -> 65
    [] c = "a" -> 97
    [] OTHER -> 98

RECURSIVE NameLess(_, _)
NameLess(x, y) ==
  IF x = << >> THEN y # << >>
  ELSE IF y = << >> THEN FALSE
  ELSE IF Head(x) = Head(y) THEN NameLess(Tail(x), Tail(y))
  ELSE Code(Head(x)) < Code(Head(y))

\* the substring filter on name
Contains(name, sub) ==
  \E i \in 1..(Len(name) - Len(sub) + 1) : SubSeq(name, i, i + Len(sub) - 1) = sub

Matching(d, search) ==
  {id \in DOMAIN d : search = None \/ Contains(d[id].name, The(search))}

\* row x may come before row y under ORDER BY order_by direction
MayPrecede(x, y, order_by, direction) ==
  LET less(u, v) == CASE order_by = "id" -> u.id < v.id
                      [] order_by = "name" -> NameLess(u.name, v.name)
                      [] OTHER -> u.created_at < v.created_at
  IN IF direction = "asc" THEN ~less(y, x) ELSE ~less(x, y)

\* the orders in which the backend may return the rows ids: every order
\* that ORDER BY allows; rows with equal keys come in any order
Orderings(d, ids, order_by, direction) ==
  {s \in [1..Cardinality(ids) -> ids] :
     /\ \A i, j \in DOMAIN s : i # j => s[i] # s[j]
     /\ \A i, j \in DOMAIN s : i < j => MayPrecede(d[s[i]], d[s[j]], order_by, direction)}

Window(s, offset, limit) ==
  SubSeq(s, offset + 1, IF offset + limit < Len(s) THEN offset + limit ELSE Len(s))

\* get_all(search, order_by, direction, limit, offset) -> sequence of Dish:
\* the results the backend may give for the query
RepositoryGetAll(d, q) ==
  {[i \in DOMAIN w |-> d[w[i]]] :
     w \in {Window(s, q.offset, q.limit) :
              s \in Orderings(d, Matching(d, q.search), q.order_by, q.direction)}}

\* update(id, partial_data) -> Dish | absent: absent when no row matches;
\* otherwise only the fields the input carries are assigned, and the write
\* is checked against the NOT NULL and UNIQUE constraints of Dish.name.
RepositoryUpdate(d, l, id, now, data) ==
  IF id \notin DOMAIN d THEN Outcome(None, None, d, l)
  ELSE LET old == d[id]
           name == IF "name" \in data.fields THEN data.name ELSE {old.name}
           description == IF "description" \in data.fields
                          THEN data.description ELSE old.description
       IN IF NotNullViolation(name)
          THEN Outcome({IntegrityError("not_null")}, None, d, l)
          ELSE IF UniqueViolation(d, id, The(name))
          THEN Outcome({IntegrityError("unique")}, None, d, l)
          ELSE LET changed == The(name) # old.name \/ description # old.description
                   row == Dish(id, The(name), description, old.created_at,
                               IF changed THEN now ELSE old.updated_at)
               IN Outcome(None, {row}, [d EXCEPT ![id] = row], l)

\* delete(id) -> bool: false when no row matches.  For a dish that still
\* has join rows the unit of work either deletes them with the dish
\* (cascade = TRUE) or issues the DELETE alone, which the foreign key of
\* CollectionDishLink.dish_id rejects.
RepositoryDelete(d, l, id, cascade) ==
  IF id \notin DOMAIN d THEN Outcome(None, {FALSE}, d, l)
  ELSE LET rest == Without(d, id)
       IN IF cascade
          THEN Outcome(None, {TRUE}, rest, {k \in l : k[2] # id})
          ELSE IF ForeignKeyViolation(l, id)
          THEN Outcome({IntegrityError("foreign_key")}, None, d, l)
          ELSE Outcome(None, {TRUE}, rest, l)

\* -------------------------------------------------------- src/dishes/service
IsIntegrityError(o) ==
  o.raised # None /\ The(o.raised).cls = "IntegrityError"

\* variant of create_dish: the IntegrityError is not translated
create_dish_Untranslated(d, l, id, now, dish_in) ==
  LET o == RepositoryCreate(d, l, id, now, dish_in)
  IN IF IsIntegrityError(o) THEN o
     ELSE [o EXCEPT !.ret = {DishPublic(The(o.ret))}]

\* DishService.create_dish
create_dish(d, l, id, now, dish_in) ==
  LET o == RepositoryCreate(d, l, id, now, dish_in)
  IN IF IsIntegrityError(o)
     THEN [o EXCEPT !.raised = {AlreadyExistsOnCreate(dish_in.name)}]
     ELSE [o EXCEPT !.ret = {DishPublic(The(o.ret))}]

\* DishService.get_dish_by_id
get_dish_by_id(d, l, dish_id) ==
  LET o == RepositoryGetById(d, l, dish_id)
  IN IF o.ret = None
     THEN [o EXCEPT !.raised = {NotFoundException(dish_id)}]
     ELSE [o EXCEPT !.ret = {DishPublic(The(o.ret))}]

\* variant of update_dish: the name is looked up before the row
update_dish_CollisionFirst(d, l, dish_id, now, dish_in) ==
  LET o == RepositoryUpdate(d, l, dish_id, now, dish_in)
  IN IF IsIntegrityError(o) \/ \E j \in DOMAIN d : dish_in.name = {d[j].name}
     THEN [o EXCEPT !.raised = {AlreadyExistsOnUpdate}, !.ret = None,
                    !.dishes = d]
     ELSE IF o.ret = None
     THEN [o EXCEPT !.raised = {NotFoundException(dish_id)}]
     ELSE [o EXCEPT !.ret = {DishPublic(The(o.ret))}]

\* DishService.list_dishes: the pages it may return
list_dishes(d, q) ==
  {[i \in DOMAIN rows |-> DishPublic(rows[i])] : rows \in RepositoryGetAll(d, q)}

\* variant of update_dish: the input is handed on with every field set,
\* the ones the body left out as null
update_dish_DumpAll(d, l, dish_id, now, dish_in) ==
  LET o == RepositoryUpdate(d, l, dish_id, now, [dish_in EXCEPT !.fields = FieldNames])
  IN IF IsIntegrityError(o)
     THEN [o EXCEPT !.raised = {AlreadyExistsOnUpdate}]
     ELSE IF o.ret = None
     THEN [o EXCEPT !.raised = {NotFoundException(dish_id)}]
     ELSE [o EXCEPT !.ret = {DishPublic(The(o.ret))}]

\* variant of update_dish: the input is handed on without its null fields
update_dish_ExcludeNone(d, l, dish_id, now, dish_in) ==
  LET set == {f \in dish_in.fields : dish_in[f] # None}
      o == RepositoryUpdate(d, l, dish_id, now, [dish_in EXCEPT !.fields = set])
  IN IF IsIntegrityError(o)
     THEN [o EXCEPT !.raised = {AlreadyExistsOnUpdate}]
     ELSE IF o.ret = None
     THEN [o EXCEPT !.raised = {NotFoundException(dish_id)}]
     ELSE [o EXCEPT !.ret = {DishPublic(The(o.ret))}]

\* variant of update_dish: the fields are written one by one, and the
\* description stays written when the name is refused
update_dish_PartialWrite(d, l, dish_id, now, dish_in) ==
  LET o == RepositoryUpdate(d, l, dish_id, now, dish_in)
  IN IF IsIntegrityError(o)
     THEN [o EXCEPT !.raised = {AlreadyExistsOnUpdate},
                    !.dishes = IF "description" \in dish_in.fields
                               THEN [d EXCEPT ![dish_id].description = dish_in.description]
                               ELSE d]
     ELSE IF o.ret = None
     THEN [o EXCEPT !.raised = {NotFoundException(dish_id)}]
     ELSE [o EXCEPT !.ret = {DishPublic(The(o.ret))}]

\* DishService.update_dish
update_dish(d, l, dish_id, now, dish_in) ==
  LET o == RepositoryUpdate(d, l, dish_id, now, dish_in)
  IN IF IsIntegrityError(o)
     THEN [o EXCEPT !.raised = {AlreadyExistsOnUpdate}]
     ELSE IF o.ret = None
     THEN [o EXCEPT !.raised = {NotFoundException(dish_id)}]
     ELSE [o EXCEPT !.ret = {DishPublic(The(o.ret))}]

\* variant of delete_dish: the repository's answer is not looked at
delete_dish_Silent(d, l, dish_id, cascade) ==
  LET o == RepositoryDelete(d, l, dish_id, cascade)
  IN IF o.raised # None THEN o ELSE [o EXCEPT !.ret = None]

\* DishService.delete_dish
delete_dish(d, l, dish_id, cascade) ==
  LET o == RepositoryDelete(d, l, dish_id, cascade)
  IN IF o.raised # None THEN o
     ELSE IF ~The(o.ret)
     THEN [o EXCEPT !.raised = {NotFoundException(dish_id)}, !.ret = None]
     ELSE [o EXCEPT !.ret = None]

\* ------------------------------------------- src/core/exception, src/main
\* status code and body: an error detail, one dish, or a page of dishes
Response(status, detail, dish) ==
  [status |-> status, detail |-> detail, dish |-> dish, page |-> << >>]

NoResponse == Response(0, None, None)

InternalServerError == Detail("Internal server error", None, None)

\* variant of global_exception_handler: the body carries the exception's text
global_exception_handler_Leaky(exc) ==
  Response(500, {exc.detail}, None)

\* global_exception_handler: logs the exception, answers with a fixed body
global_exception_handler(exc) ==
  Response(500, {InternalServerError}, None)

\* the framework's handler of HTTPException: the exception's own status
\* code and detail
http_exception_handler(exc) ==
  Response(StatusOf(exc.cls), {exc.detail}, None)

\* the framework's handler of a request that fails validation
request_validation_exception_handler(exc) ==
  Response(422, {exc.detail}, None)

\* app = FastAPI(...) installs the framework's two handlers;
\* register_exception_handlers(app) adds the handler of Exception.
Handlers == {"HTTPException", "RequestValidationError", "Exception"}

\* the handler of an exception is that of the nearest class that has one
RECURSIVE HandlerOf(_)
HandlerOf(cls) ==
  IF cls \in Handlers THEN cls ELSE HandlerOf(BaseOf(cls))

HandleException(exc) ==
  LET h == HandlerOf(exc.cls)
  IN CASE h = "HTTPException" -> http_exception_handler(exc)
       [] h = "RequestValidationError" -> request_validation_exception_handler(exc)
       [] OTHER -> global_exception_handler(exc)

\* --------------------------------------------------------- src/dishes/router
\* status_code of each route
SuccessStatus(op) ==
  CASE op = "create" -> 201
    [] op = "delete" -> 204
    [] OTHER -> 200

\* the response of a route: the service's result under the route's status
\* code, or what the exception handlers make of the exception it raised
RouteResponse(op, o) ==
  IF o.raised # None THEN HandleException(The(o.raised))
  ELSE IF op = "list"
  THEN [Response(SuccessStatus(op), None, None) EXCEPT !.page = The(o.ret)]
  ELSE Response(SuccessStatus(op), None, o.ret)

NoData == DishUpdate({}, None, None)

\* the bodies of PATCH: each field absent, null or a value
UpdateInputs ==
  {DishUpdate(fields, n, desc) :
     fields \in SUBSET FieldNames, n \in OptName, desc \in OptDesc}

\* one request and its response
Exchange(op, id, data, raised, res) ==
  [op |-> op, id |-> id, data |-> data, raised |-> raised, res |-> res]

NoExchange == Exchange("none", 0, NoData, None, NoResponse)

Now == clock

\* get_db / get_dish_service: a request arrives and gets its session.  Its
\* input is fixed from here on; nothing reads it before the repository
\* call, where the model draws it.
Call(r) ==
  /\ req[r] = "idle"
  /\ req' = [req EXCEPT ![r] = "inflight"]
  /\ sessions' = sessions \cup {r}
  /\ UNCHANGED <<dishes, links, seq, dbType, clock, last, gone, created, scan, before>>

\* the awaited service call returns or raises, and the response is built
Return(r, op, id, data, o) ==
  /\ req[r] = "inflight"
  /\ req' = [req EXCEPT ![r] = "done"]
  /\ last' = Exchange(op, id, data, o.raised, RouteResponse(op, o))
  /\ dishes' = o.dishes
  /\ links' = o.links
  /\ before' = IF op = "update" /\ id \in DOMAIN dishes THEN {dishes[id]} ELSE None
  /\ UNCHANGED <<dbType, clock, sessions>>

\* history: a write while the client is paging changes the dataset
Dirtied(o) ==
  IF scan.active /\ o.dishes # dishes THEN [scan EXCEPT !.dirty = TRUE] ELSE scan

\* POST /
ExecCreate(r) ==
  \E n \in Names, desc \in OptDesc :
    LET id == NewId(dishes, seq, dbType)
        o == create_dish(dishes, links, id, Now, DishCreate(n, desc))
    IN /\ id <= MaxId
       /\ Return(r, "create", 0, DishUpdate(FieldNames, {n}, desc), o)
       /\ seq' = IF dbType = "postgres" THEN seq + 1 ELSE seq
       /\ scan' = Dirtied(o)
       /\ gone' = IF o.raised = None THEN gone \ {id} ELSE gone
       /\ created' = IF o.raised = None
                     THEN (id :> DishCreate(n, desc)) @@ created ELSE created

\* GET /{dish_id}
ExecGet(r) ==
  \E id \in Ids :
    /\ Return(r, "get", id, NoData, get_dish_by_id(dishes, links, id))
    /\ UNCHANGED <<seq, gone, created, scan>>

\* PATCH /{dish_id}
ExecUpdate(r) ==
  \E id \in Ids, dish_in \in UpdateInputs :
    LET o == update_dish(dishes, links, id, Now, dish_in)
    IN /\ Return(r, "update", id, dish_in, o)
       /\ created' = IF o.raised = None THEN Without(created, id) ELSE created
       /\ scan' = Dirtied(o)
       /\ UNCHANGED <<seq, gone>>

\* DELETE /{dish_id}
ExecDelete(r) ==
  \E id \in Ids, cascade \in BOOLEAN :
    LET o == delete_dish(dishes, links, id, cascade)
    IN /\ Return(r, "delete", id, NoData, o)
       /\ gone' = IF o.raised = None THEN gone \cup {id} ELSE gone
       /\ created' = IF o.raised = None THEN Without(created, id) ELSE created
       /\ scan' = Dirtied(o)
       /\ UNCHANGED seq

\* the response is sent and the request's session closed (get_db's
\* "async with" exits)
Finish(r) ==
  /\ req[r] = "done"
  /\ req' = [req EXCEPT ![r] = "idle"]
  /\ sessions' = sessions \ {r}
  /\ UNCHANGED <<dishes, links, seq, dbType, clock, last, gone, created, scan, before>>

\* GET /: the client asks for the first page of a query ...
StartScan ==
  /\ ~scan.active \/ scan.finished
  /\ \E search \in Searches, order_by \in {"id", "name", "created_at"},
        direction \in {"asc", "desc"}, limit \in Limits :
       LET q == DishQueryParams(search, order_by, direction, limit, 0)
       IN /\ ValidQuery(q)
          /\ scan' = [active |-> TRUE, query |-> q, seen |-> << >>,
                      dirty |-> FALSE, finished |-> FALSE]
  /\ UNCHANGED <<dishes, links, seq, dbType, clock, sessions, req, last, gone, created,
               before>>

\* ... and each request returns the window at the client's offset; the
\* client moves on by limit, until a page comes back short
ExecList(r) ==
  /\ scan.active /\ ~scan.finished
  /\ \E page \in list_dishes(dishes, scan.query) :
       /\ Return(r, "list", 0, NoData, Outcome(None, {page}, dishes, links))
       /\ scan' = [scan EXCEPT
                     !.seen = scan.seen \o [i \in DOMAIN page |-> page[i].id],
                     !.query.offset = scan.query.offset + scan.query.limit,
                     !.finished = Len(page) < scan.query.limit]
  /\ UNCHANGED <<seq, gone, created>>

\* the request body fails validation: the route function is not called
Invalid(r) ==
  \E op \in {"create", "update"}, field \in {"name: field required", "name: too long"} :
    /\ Return(r, op, 0, NoData, Outcome({RequestValidationError(field)}, None, dishes, links))
    /\ UNCHANGED <<seq, gone, created, scan>>

\* the repository call fails for a reason that is no constraint violation;
\* the service catches IntegrityError only, and the failure leaves the route
Fault(r) ==
  \E op \in {"create", "get", "update", "delete", "list"},
     exc \in {Exc("OperationalError", Detail("connection refused", None, None)),
              Exc("TimeoutError", Detail("pool timeout", None, None))} :
    /\ Return(r, op, 0, NoData, Outcome({exc}, None, dishes, links))
    /\ UNCHANGED <<seq, gone, created, scan>>

\* variant of Cancel: the session is not closed when the request is cancelled
Cancel_Leaky(r) ==
  /\ req[r] = "inflight"
  /\ req' = [req EXCEPT ![r] = "idle"]
  /\ last' = Exchange("cancelled", 0, NoData, None, NoResponse)
  /\ before' = None
  /\ seq' \in {seq} \cup {seq + 1 : x \in {y \in {dbType} : y = "postgres" /\ seq <= MaxId}}
  /\ UNCHANGED <<dishes, links, dbType, clock, sessions, gone, created, scan>>

\* the transport cancels the request while it waits on the repository call:
\* the call is abandoned, no response is built, and leaving get_db's
\* "async with" block closes the session, which rolls back what was not
\* committed (an id the sequence gave out to an abandoned insert is not
\* given back)
Cancel(r) ==
  /\ req[r] = "inflight"
  /\ req' = [req EXCEPT ![r] = "idle"]
  /\ sessions' = sessions \ {r}
  /\ last' = Exchange("cancelled", 0, NoData, None, NoResponse)
  /\ before' = None
  /\ seq' \in {seq} \cup {seq + 1 : x \in {y \in {dbType} : y = "postgres" /\ seq <= MaxId}}
  /\ UNCHANGED <<dishes, links, dbType, clock, gone, created, scan>>

\* a dish is attached to a collection: a row of collection_dish, whose
\* primary key is the pair and whose foreign keys must both resolve
Attach(c, id) ==
  /\ c \in Collections
  /\ id \in DOMAIN dishes
  /\ <<c, id>> \notin links
  /\ links' = links \cup {<<c, id>>}
  /\ UNCHANGED <<dishes, seq, dbType, clock, sessions, req, last, gone, created, scan,
               before>>

\* time passes
Tick ==
  /\ clock < MaxClock
  /\ clock' = clock + 1
  /\ UNCHANGED <<dishes, links, seq, dbType, sessions, req, last, gone, created, scan,
               before>>

\* ------------------------------------------------------------ specifications
NoScan ==
  [active |-> FALSE, query |-> DefaultQuery, seen |-> << >>,
   dirty |-> FALSE, finished |-> FALSE]

Init ==
  /\ dishes = << >>
  /\ links = {}
  /\ seq = 1
  /\ dbType \in {"postgres", "sqlite"}
  /\ clock = 0
  /\ sessions = {}
  /\ req = [r \in Req |-> "idle"]
  /\ last = NoExchange
  /\ gone = {}
  /\ created = << >>
  /\ scan = NoScan
  /\ before = None

Next ==
  \/ \E r \in Req : Call(r)
  \/ \E r \in Req : ExecCreate(r)
  \/ \E r \in Req : ExecGet(r)
  \/ \E r \in Req : ExecUpdate(r)
  \/ \E r \in Req : ExecDelete(r)
  \/ \E r \in Req : Finish(r)
  \/ Tick

Spec == Init /\ [][Next]_vars

\* only POST / requests
NextCreate ==
  \/ \E r \in Req : Call(r)
  \/ \E r \in Req : ExecCreate(r)
  \/ \E r \in Req : Finish(r)
  \/ Tick

SpecCreate == Init /\ [][NextCreate]_vars

\* POST / and DELETE /{dish_id}, with dishes attached to collections
NextJoin ==
  \/ \E r \in Req : Call(r)
  \/ \E r \in Req : ExecCreate(r)
  \/ \E r \in Req : ExecDelete(r)
  \/ \E r \in Req : Finish(r)
  \/ \E c \in Collections, id \in Ids : Attach(c, id)

SpecJoin == Init /\ [][NextJoin]_vars

\* POST / and a client paging through GET /
NextList ==
  \/ \E r \in Req : Call(r)
  \/ \E r \in Req : ExecCreate(r)
  \/ \E r \in Req : ExecList(r)
  \/ \E r \in Req : Finish(r)
  \/ StartScan
  \/ Tick

SpecList == Init /\ [][NextList]_vars

\* requests that fail: invalid bodies, backend failures, rejected deletes
NextErr ==
  \/ \E r \in Req : Call(r)
  \/ \E r \in Req : ExecCreate(r)
  \/ \E r \in Req : ExecGet(r)
  \/ \E r \in Req : ExecDelete(r)
  \/ \E r \in Req : Invalid(r)
  \/ \E r \in Req : Fault(r)
  \/ \E r \in Req : Finish(r)
  \/ \E c \in Collections, id \in Ids : Attach(c, id)

SpecErr == Init /\ [][NextErr]_vars

\* requests that fail or are cancelled
NextFail ==
  \/ \E r \in Req : Call(r)
  \/ \E r \in Req : ExecCreate(r)
  \/ \E r \in Req : ExecGet(r)
  \/ \E r \in Req : ExecUpdate(r)
  \/ \E r \in Req : Fault(r)
  \/ \E r \in Req : Cancel(r)
  \/ \E r \in Req : Finish(r)

SpecFail == Init /\ [][NextFail]_vars

\* --------------------------------------------------------------- properties
\* request r's service call completes in this step
Executed(r) == req[r] = "inflight" /\ req'[r] = "done"

Held(d, name) == \E j \in DOMAIN d : d[j].name = name

IsAlreadyExists(res) ==
  /\ res.status = 409
  /\ res.dish = None
  /\ \E det \in res.detail :
       det.text \in {"Dish with name already exists", "Dish with this name already exists"}

IsNotFound(res, id) ==
  /\ res.status = 404
  /\ res.dish = None
  /\ res.detail = {Detail("Dish with id not found", None, {id})}

C2_UniqueNames ==
  \A i \in DOMAIN dishes : \A j \in DOMAIN dishes :
    i # j => dishes[i].name # dishes[j].name

\* C2 witness: two dishes are stored and an update that asked for the
\* other dish's name has just been refused.
C2_Witness ==
  /\ Cardinality(DOMAIN dishes) = 2
  /\ last.op = "update" /\ last.res.status = 409
  /\ last.id \in DOMAIN dishes
  /\ \E j \in DOMAIN dishes : j # last.id /\ last.data.name = {dishes[j].name}

C4_UpdateFrame ==
  [][\A r \in Req :
       (Executed(r) /\ last'.op = "update") =>
         LET id == last'.id
             in == last'.data
         IN /\ \A j \in DOMAIN dishes : j # id =>
                 j \in DOMAIN dishes' /\ dishes'[j] = dishes[j]
            /\ DOMAIN dishes' = DOMAIN dishes
            /\ links' = links
            /\ (id \in DOMAIN dishes /\ in.fields = {}) =>
                 /\ last'.res.status = 200
                 /\ dishes' = dishes
                 /\ last'.res.dish = {DishPublic(dishes[id])}
            /\ last'.res.status = 200 =>
                 /\ id \in DOMAIN dishes
                 /\ dishes'[id].id = id
                 /\ dishes'[id].created_at = dishes[id].created_at
                 /\ "name" \notin in.fields => dishes'[id].name = dishes[id].name
                 /\ "name" \in in.fields => in.name = {dishes'[id].name}
                 /\ "description" \notin in.fields =>
                      dishes'[id].description = dishes[id].description
                 /\ "description" \in in.fields =>
                      dishes'[id].description = in.description
                 /\ last'.res.dish = {DishPublic(dishes'[id])}
    ]_vars

\* C4 witness: an update that carried only a description succeeded and
\* changed it, on a dish stored under its original name.
C4_Witness ==
  /\ last.op = "update" /\ last.res.status = 200
  /\ last.data.fields = {"description"}
  /\ last.id \in DOMAIN dishes
  /\ last.id \notin DOMAIN created
  /\ dishes[last.id].description = last.data.description
  /\ dishes[last.id].updated_at > dishes[last.id].created_at

C6_CreateGetRoundTrip ==
  [][\A r \in Req :
       (Executed(r) /\ last'.op = "get" /\ last'.id \in DOMAIN created) =>
         /\ last'.res.status = 200
         /\ \E p \in last'.res.dish :
              /\ last'.res.dish = {p}
              /\ p.name = created[last'.id].name
              /\ p.description = created[last'.id].description
              /\ p.id = last'.id
              /\ p.created_at \in 0..clock
              /\ DOMAIN p = {"id", "name", "description", "created_at"}
    ]_vars

\* C6 witness: a get returned a dish created with a description and not
\* touched since.
C6_Witness ==
  /\ last.op = "get" /\ last.res.status = 200
  /\ last.id \in DOMAIN created
  /\ created[last.id].description # None
  /\ \E p \in last.res.dish : p.description = created[last.id].description

\* C10 (as claimed): update_dish on an existing id fails with AlreadyExists
\* (409) if and only if its input carries a name that a different dish holds.
C10_Claim ==
  [][\A r \in Req :
       (Executed(r) /\ last'.op = "update" /\ last'.id \in DOMAIN dishes) =>
         (IsAlreadyExists(last'.res) <=>
            /\ "name" \in last'.data.fields
            /\ \E j \in DOMAIN dishes :
                 j # last'.id /\ last'.data.name = {dishes[j].name})
    ]_vars

C11_Claim ==
  [][\A r \in Req :
       (Executed(r) /\ last'.op \in {"create", "update"}) =>
         /\ IsAlreadyExists(last'.res) =>
              \E n \in last'.data.name : UniqueViolation(dishes, last'.id, n)
         /\ (/\ last'.op = "update"
             /\ last'.id \in DOMAIN dishes
             /\ "name" \in last'.data.fields
             /\ NotNullViolation(last'.data.name)) =>
              last'.res = Response(500, {InternalServerError}, None)
    ]_vars

C13_SessionScoped ==
  [][\A r \in Req :
       /\ r \in sessions' <=> req'[r] \in {"inflight", "done"}
       /\ (req[r] # "idle" /\ req'[r] = "idle") => sessions' = sessions \ {r}
       /\ (req[r] = "idle" /\ req'[r] # "idle") => sessions' = sessions \cup {r}
       /\ req'[r] = req[r] => (r \in sessions' <=> r \in sessions)
    ]_vars

\* C13 witness: a request was cancelled mid-flight and its session is
\* closed, while the other request is in flight on its own open session.
C13_Witness ==
  /\ last.op = "cancelled"
  /\ \E r \in Req : req[r] = "inflight" /\ sessions = {r}
  /\ \E r \in Req : req[r] = "idle"

====
